---- MODULE Spec2Model ----
(***************************************************************************)
(* Identity resolution and score aggregation of capable-exp's judging      *)
(* pipeline (pipeline/merge_judging.py, pipeline/compare_rankings.py).     *)
(*                                                                         *)
(* read_rankings collects the identifiers, the merge edges and the scored  *)
(* entries of the ranking rows; build_canonical_map resolves the edges     *)
(* with a union-find and picks one canonical identifier per group;         *)
(* build_canonical_avg and main average the scores per source and over    *)
(* the sources; build_plot_data joins the auxiliary rows (peptide,        *)
(* n_results) against a map of means.                                      *)
(*                                                                         *)
(* Identifiers are the one-letter strings of IdOrder, which lists them in  *)
(* the order Python's sorted() gives them.  "" is the empty cell: no       *)
(* sequence, no removed_for.                                               *)
(***************************************************************************)
EXTENDS Integers, Sequences, FiniteSets, TLC

VARIABLES
    pc,                 \* the statement main() is at
    path_i,             \* read_rankings: the ranking file being read, an index of Paths
    nrows,              \* ranking rows read so far
    sequences,          \* read_rankings: sequences
    edges,              \* read_rankings: edges, a list of <<child, parent>>
    invalid_set,        \* read_rankings: invalid_set
    entries_by_source,  \* read_rankings: entries_by_source, source -> list of entries
    parent,             \* build_canonical_map: parent
    rank,               \* build_canonical_map: rank (a dict: absent keys read as 0)
    edge_i,             \* build_canonical_map: edges processed by the loop of line 51
    components,         \* build_canonical_map: components, root -> list of members
    canonical_map,      \* the value build_canonical_map returned
    invalid_canon,      \* main: invalid_canon
    per_judge_avg,      \* main: per_judge_avg, source -> (canonical -> mean)
    combined_avg,       \* main: combined_avg, canonical -> mean
    rows,               \* main: rows, a list of <<peptide, n_results>>
    judge_i,            \* main: 0 in the combined pass, else the index in Paths of the source plotted
    plot_avg,           \* build_plot_data: the argument avg_map
    track_missing,      \* build_plot_data: the argument track_missing
    row_i,              \* build_plot_data: rows the loop of line 184 has taken
    n_results_values,   \* build_plot_data: n_results_values
    avg_elos,           \* build_plot_data: avg_elos
    baseline_seqs,      \* build_plot_data: baseline_seqs, canonical -> mean
    numeric_rows,       \* build_plot_data: numeric_rows
    numeric_peptides,   \* build_plot_data: numeric_peptides
    numeric_with_elo,   \* build_plot_data: numeric_with_elo
    missing_examples,   \* build_plot_data: missing_examples, a list of <<peptide, canonical>>
    missing_by_canonical, \* build_plot_data: missing_by_canonical, canonical -> count
    missing_total,      \* build_plot_data: missing_total
    calls,              \* two calls of the pipeline in flight: call -> its frame
    heap,               \* the dicts and lists the calls have created: address -> object
    run_pc,             \* run.py: "idle" between invocations, "stages" inside main's loop
    run_json,           \* run.py: the run directory's run.json (state_path)
    config,             \* run.py: the run directory's config.yaml, stage -> enabled
    state,              \* run.py main: state, the dict the invocation works on
    stages_to_run,      \* run.py main: stages_to_run
    stage_k,            \* run.py main: stages of stages_to_run the loop has taken
    raised,             \* run.py: the stage whose function raised in this invocation
    invocations         \* run.py: invocations of the runner started so far

vars == <<pc, path_i, nrows, sequences, edges, invalid_set, entries_by_source, parent, rank,
          edge_i, components, canonical_map, invalid_canon, per_judge_avg, combined_avg,
          rows, judge_i, plot_avg, track_missing, row_i, n_results_values, avg_elos,
          baseline_seqs, numeric_rows, numeric_peptides, numeric_with_elo, missing_examples,
          missing_by_canonical, missing_total, calls, heap, run_pc, run_json, config, state,
          stages_to_run, stage_k, raised, invocations>>

resolverVars == <<parent, rank, edge_i, components, canonical_map>>
readVars == <<path_i, nrows, sequences, edges, invalid_set, entries_by_source>>
aggVars == <<invalid_canon, per_judge_avg, combined_avg>>
plotLocals == <<n_results_values, avg_elos, baseline_seqs, numeric_rows, numeric_peptides,
                numeric_with_elo, missing_examples, missing_by_canonical, missing_total>>
plotVars == <<rows, judge_i, plot_avg, track_missing, row_i, plotLocals>>
callVars == <<calls, heap>>
runVars == <<run_pc, run_json, config, state, stages_to_run, stage_k, raised, invocations>>

---------------------------------------------------------------------------
(* Bounds and universes *)

MaxRows == 3

\* The stems of the ranking files, in the order main() is given them.
Paths == <<"s1", "s2">>

IdOrder == <<"A", "B", "C", "D">>
Ids == {IdOrder[k] : k \in 1..Len(IdOrder)}
NoValue == ""

EmptyMap == [x \in {} |-> x]

Range(s) == {s[k] : k \in 1..Len(s)}

\* Python's str ordering on the identifiers: position in IdOrder.
LexIndex(x) == CHOOSE k \in 1..Len(IdOrder) : IdOrder[k] = x
LexLeq(a, b) == LexIndex(a) <= LexIndex(b)

---------------------------------------------------------------------------
(* build_canonical_map: the union-find *)

\* find, first loop: follow parent to the root.
RECURSIVE FindRoot(_, _)
FindRoot(par, value) ==
    IF par[value] = value THEN value ELSE FindRoot(par, par[value])

\* A mutation of Compress: the node found is pointed at itself.
CompressDetaches(par, value, root) == [par EXCEPT ![value] = value]

\* find, second loop: point every node of the path at the root.
RECURSIVE Compress(_, _, _)
Compress(par, value, root) ==
    IF par[value] = value THEN par
    ELSE Compress([par EXCEPT ![value] = root], par[value], root)

\* find(value): the root and the parent table it leaves behind.
find(par, value) ==
    LET root == FindRoot(par, value)
    IN [root |-> root, parent |-> Compress(par, value, root)]

RankGet(rk, x) == IF x \in DOMAIN rk THEN rk[x] ELSE 0

RankSet(rk, x, v) == [y \in DOMAIN rk \cup {x} |-> IF y = x THEN v ELSE rk[y]]

\* A mutation of union: links the node a itself, not its root, under b's root.
unionLinksNode(uf, a, b) ==
    LET fa == find(uf.parent, a)
        fb == find(fa.parent, b)
    IN IF fa.root = fb.root THEN [parent |-> fb.parent, rank |-> uf.rank]
       ELSE [parent |-> [fb.parent EXCEPT ![a] = fb.root], rank |-> uf.rank]

\* union(a, b) on the tables uf = [parent, rank].
union(uf, a, b) ==
    LET fa == find(uf.parent, a)
        fb == find(fa.parent, b)
        root_a == fa.root
        root_b == fb.root
        par == fb.parent
        rank_a == RankGet(uf.rank, root_a)
        rank_b == RankGet(uf.rank, root_b)
    IN IF root_a = root_b THEN [parent |-> par, rank |-> uf.rank]
       ELSE IF rank_a < rank_b
            THEN [parent |-> [par EXCEPT ![root_a] = root_b], rank |-> uf.rank]
       ELSE IF rank_a > rank_b
            THEN [parent |-> [par EXCEPT ![root_b] = root_a], rank |-> uf.rank]
       ELSE [parent |-> [par EXCEPT ![root_b] = root_a],
             rank |-> RankSet(uf.rank, root_a, rank_a + 1)]

\* parent = {seq: seq for seq in sequences}; rank = {}
InitialTables(seqs) == [parent |-> [s \in seqs |-> s], rank |-> EmptyMap]

\* find or union on an identifier that is no key of parent raises KeyError.
EdgeRaises(par, e) == e[1] \notin DOMAIN par \/ e[2] \notin DOMAIN par

\* sorted(S) of a set of identifiers.
RECURSIVE SortedSeq(_)
SortedSeq(S) ==
    IF S = {} THEN <<>>
    ELSE LET x == CHOOSE c \in S : \A d \in S : LexLeq(c, d)
         IN <<x>> \o SortedSeq(S \ {x})

\* The orders in which "for seq in sequences" can visit a set: Python fixes none.
IterationOrders(S) ==
    {[k \in 1..Cardinality(S) |-> p[SortedSeq(S)[k]]] : p \in Permutations(S)}

\* for seq in sequences: components[find(seq)].append(seq), visiting in order ord.
\* Yields the components and the parent table the finds leave behind.
RECURSIVE GroupLoop(_, _, _, _)
GroupLoop(par, comps, ord, k) ==
    IF k > Len(ord) THEN [parent |-> par, components |-> comps]
    ELSE LET f == find(par, ord[k])
             old == IF f.root \in DOMAIN comps THEN comps[f.root] ELSE <<>>
             new == [r \in DOMAIN comps \cup {f.root} |->
                        IF r = f.root THEN Append(old, ord[k]) ELSE comps[r]]
         IN GroupLoop(f.parent, new, ord, k + 1)

\* A mutation of removed_sources: the other side of the edge.
removedSourcesParents(es) == {es[k][2] : k \in 1..Len(es)}

\* removed_sources = {left for left, _ in edges}
removed_sources(es) == {es[k][1] : k \in 1..Len(es)}

\* candidates = [seq for seq in members if seq not in removed_sources]
candidates(members, es) == SelectSeq(members, LAMBDA s : s \notin removed_sources(es))

\* A mutation of sortedFirst: the first list element, unsorted.
firstUnsorted(cands) == cands[1]

\* sorted(candidates)[0]
sortedFirst(cands) ==
    CHOOSE c \in Range(cands) : \A d \in Range(cands) : LexLeq(c, d)

\* A mutation of canonicalOf: the child filter is dropped.
canonicalIgnoresChildren(root, members, es) == sortedFirst(members)

\* The body of the loop of lines 60-64 for one component.
canonicalOf(root, members, es) ==
    LET cands == candidates(members, es)
    IN IF cands = <<>> THEN sortedFirst(members) ELSE sortedFirst(cands)

\* A mutation of canonical_by_root: the candidates are drawn from all the
\* sequences instead of the component's members.
canonicalByRootAllSequences(comps, es) ==
    LET all == UNION {Range(comps[r]) : r \in DOMAIN comps}
        nonchild == all \ removed_sources(es)
    IN [root \in DOMAIN comps |->
           IF nonchild = {} THEN sortedFirst(comps[root])
           ELSE CHOOSE c \in nonchild : \A d \in nonchild : LexLeq(c, d)]

\* canonical_by_root
canonical_by_root(comps, es) ==
    [root \in DOMAIN comps |-> canonicalOf(root, comps[root], es)]

\* A mutation of resultMap: the root itself is returned as the canonical id.
resultMapRoots(par, comps, es, seqs) == [seq \in seqs |-> FindRoot(par, seq)]

\* A mutation of resultMap: one hop along the identifier's own edge, no closure.
resultMapOneHop(par, comps, es, seqs) ==
    [seq \in seqs |->
        IF seq \in removed_sources(es)
        THEN es[CHOOSE k \in 1..Len(es) : es[k][1] = seq][2]
        ELSE seq]

\* return {seq: canonical_by_root[find(seq)] for seq in sequences}
resultMap(par, comps, es, seqs) ==
    [seq \in seqs |-> canonical_by_root(comps, es)[FindRoot(par, seq)]]

\* for left, right in edges: union(left, right), from edge k on.  A missing key
\* raises KeyError out of build_canonical_map.
RECURSIVE UnionLoop(_, _, _)
UnionLoop(uf, es, k) ==
    IF k > Len(es) THEN [raised |-> FALSE, parent |-> uf.parent, rank |-> uf.rank]
    ELSE IF EdgeRaises(uf.parent, es[k])
         THEN [raised |-> TRUE, parent |-> uf.parent, rank |-> uf.rank]
    ELSE UnionLoop(union(uf, es[k][1], es[k][2]), es, k + 1)

\* build_canonical_map(sequences, edges) as one function, the set visited in
\* order ord: whether it raised, and the mapping it returned.
build_canonical_map(seqs, es, ord) ==
    LET u == UnionLoop(InitialTables(seqs), es, 1)
        g == GroupLoop(u.parent, EmptyMap, ord, 1)
    IN IF u.raised THEN [raised |-> TRUE, mapping |-> EmptyMap]
       ELSE [raised |-> FALSE,
             mapping |-> resultMap(g.parent, g.components, es, seqs)]

---------------------------------------------------------------------------
(* read_rankings: one ranking row.  A row is the cells after strip() and the  *)
(* NaN handling of lines 96-130: seq, removed_for ("" when absent), the       *)
(* parsed invalid flag and the elo cell: <<>> when it is empty or no number    *)
(* (lines 125-130 skip the entry), <<v>> when float() parses it to v.         *)

\* A mutation of registerRow: the parent of an edge is not registered.
registerRowChildOnly(seqs, seq, removed_for) == seqs \cup {seq}

\* sequences.add(seq); if removed_for: sequences.add(removed_for)
registerRow(seqs, seq, removed_for) ==
    seqs \cup {seq} \cup (IF removed_for # NoValue THEN {removed_for} ELSE {})

\* entries_by_source[source].append(entry)
appendEntry(ebs, source, entry) ==
    [s \in DOMAIN ebs \cup {source} |->
        IF s = source
        THEN Append(IF s \in DOMAIN ebs THEN ebs[s] ELSE <<>>, entry)
        ELSE ebs[s]]

ReadRow(source, seq, removed_for, invalid, elo) ==
    /\ pc = "read"
    /\ source = Paths[path_i]
    /\ path_i' = path_i
    /\ nrows' = nrows + 1
    /\ IF seq = NoValue
       THEN UNCHANGED <<sequences, edges, invalid_set, entries_by_source>>
       ELSE /\ sequences' = registerRow(sequences, seq, removed_for)
            /\ edges' = IF removed_for # NoValue
                        THEN Append(edges, <<seq, removed_for>>) ELSE edges
            /\ invalid_set' = IF invalid THEN invalid_set \cup {seq} ELSE invalid_set
            /\ entries_by_source' =
                  IF elo = <<>> THEN entries_by_source
                  ELSE appendEntry(entries_by_source, source,
                                   [seq |-> seq, elo |-> elo[1], invalid |-> invalid,
                                    removed_for |-> removed_for, source |-> source])
    /\ UNCHANGED <<pc, resolverVars, aggVars, plotVars, callVars, runVars>>

\* canonical_map = build_canonical_map(sequences, edges) if sequences else {}
\* up to the tables of lines 23-24.
EndRead ==
    /\ pc = "read"
    /\ IF sequences = {}
       THEN /\ pc' = "mapped"
            /\ UNCHANGED <<parent, rank>>
       ELSE /\ pc' = "union"
            /\ parent' = InitialTables(sequences).parent
            /\ rank' = InitialTables(sequences).rank
    /\ UNCHANGED <<readVars, edge_i, components, canonical_map, aggVars, plotVars, callVars, runVars>>

\* One iteration of "for left, right in edges: union(left, right)".
UnionStep ==
    /\ pc = "union"
    /\ edge_i < Len(edges)
    /\ LET e == edges[edge_i + 1]
       IN IF EdgeRaises(parent, e)
          THEN /\ pc' = "KeyError"
               /\ UNCHANGED <<parent, rank, edge_i>>
          ELSE LET uf == union([parent |-> parent, rank |-> rank], e[1], e[2])
               IN /\ parent' = uf.parent
                  /\ rank' = uf.rank
                  /\ edge_i' = edge_i + 1
                  /\ pc' = pc
    /\ UNCHANGED <<readVars, components, canonical_map, aggVars, plotVars, callVars, runVars>>

\* Lines 54-56: the components, the set visited in one of its orders.
GroupComponents ==
    /\ pc = "union"
    /\ edge_i = Len(edges)
    /\ \E ord \in IterationOrders(sequences) :
          LET g == GroupLoop(parent, EmptyMap, ord, 1)
          IN /\ parent' = g.parent
             /\ components' = g.components
    /\ pc' = "select"
    /\ UNCHANGED <<readVars, rank, edge_i, canonical_map, aggVars, plotVars, callVars, runVars>>

\* Lines 58-66: the canonical id of every component, and the returned mapping.
\* The tables are locals of build_canonical_map: they end with the call.
SelectCanonical ==
    /\ pc = "select"
    /\ canonical_map' = resultMap(parent, components, edges, sequences)
    /\ pc' = "mapped"
    /\ parent' = EmptyMap
    /\ rank' = EmptyMap
    /\ edge_i' = 0
    /\ components' = EmptyMap
    /\ UNCHANGED <<readVars, aggVars, plotVars, callVars, runVars>>

---------------------------------------------------------------------------
(* main and build_canonical_avg: the means.  A mean is kept as the fraction   *)
(* <<numerator, denominator>> in lowest terms: np.mean's float64 result is    *)
(* that fraction rounded, and two means of the small integer scores used     *)
(* here are equal floats exactly when they are equal fractions.               *)

RECURSIVE Gcd(_, _)
Gcd(a, b) == IF b = 0 THEN a ELSE Gcd(b, a % b)

Frac(n, d) == <<n \div Gcd(n, d), d \div Gcd(n, d)>>

FracAdd(x, y) == Frac(x[1] * y[2] + y[1] * x[2], x[2] * y[2])

RECURSIVE SumSeq(_)
SumSeq(xs) == IF xs = <<>> THEN 0 ELSE Head(xs) + SumSeq(Tail(xs))

RECURSIVE FracSum(_)
FracSum(fs) == IF fs = <<>> THEN <<0, 1>> ELSE FracAdd(Head(fs), FracSum(Tail(fs)))

\* A mutation of mean: the last score stands for the list.
meanLast(elos) == Frac(elos[Len(elos)], 1)

\* float(np.mean(elos)) of a non-empty list of scores.
mean(elos) == Frac(SumSeq(elos), Len(elos))

\* A mutation of meanOfMeans: the last source's mean stands for all.
meanOfMeansLast(values) == values[Len(values)]

\* float(np.mean(values)) of a non-empty list of means.
meanOfMeans(values) ==
    LET t == FracSum(values) IN Frac(t[1], t[2] * Len(values))

\* canonical_map.get(seq, seq)
MapGet(cmap, seq) == IF seq \in DOMAIN cmap THEN cmap[seq] ELSE seq

\* some_defaultdict[key].append(value)
ListAppend(d, key, value) ==
    [k \in DOMAIN d \cup {key} |->
        IF k = key THEN Append(IF k \in DOMAIN d THEN d[k] ELSE <<>>, value)
        ELSE d[k]]

\* A mutation of keepsEntry: a merge vote's score is kept.
keepsEntryWithVotes(entry, cmap, invalid_c) ==
    /\ ~entry.invalid
    /\ entry.seq # NoValue
    /\ MapGet(cmap, entry.seq) \notin invalid_c

\* build_canonical_avg, lines 153-162: whether the loop reaches the append.
keepsEntry(entry, cmap, invalid_c) ==
    /\ ~entry.invalid
    /\ entry.removed_for = NoValue
    /\ entry.seq # NoValue
    /\ MapGet(cmap, entry.seq) \notin invalid_c

\* build_canonical_avg, lines 151-163: canonical_elos after the entries from k on.
RECURSIVE CanonicalElos(_, _, _, _, _)
CanonicalElos(acc, entries, k, cmap, invalid_c) ==
    IF k > Len(entries) THEN acc
    ELSE CanonicalElos(
            IF keepsEntry(entries[k], cmap, invalid_c)
            THEN ListAppend(acc, MapGet(cmap, entries[k].seq), entries[k].elo)
            ELSE acc,
            entries, k + 1, cmap, invalid_c)

\* build_canonical_avg(entries, canonical_map, invalid_canon)
build_canonical_avg(entries, cmap, invalid_c) ==
    LET canonical_elos == CanonicalElos(EmptyMap, entries, 1, cmap, invalid_c)
    IN [seq \in DOMAIN canonical_elos |-> mean(canonical_elos[seq])]

\* The sources with entries, in the order entries_by_source got them: that of Paths.
SourceOrder(ebs) ==
    SelectSeq(Paths, LAMBDA s : s \in DOMAIN ebs)

\* main, lines 244-247: combined_elos after the sources from k on.
RECURSIVE CombinedElos(_, _, _, _)
CombinedElos(acc, pja, order, k) ==
    IF k > Len(order) THEN acc
    ELSE LET avg_map == pja[order[k]]
             new == [c \in DOMAIN acc \cup DOMAIN avg_map |->
                        IF c \in DOMAIN avg_map
                        THEN Append(IF c \in DOMAIN acc THEN acc[c] ELSE <<>>, avg_map[c])
                        ELSE acc[c]]
         IN CombinedElos(new, pja, order, k + 1)

\* A mutation of combinedAvg: only the ids every source has are combined.
combinedAvgShared(pja) ==
    LET combined_elos == CombinedElos(EmptyMap, pja, SourceOrder(pja), 1)
    IN [seq \in {c \in DOMAIN combined_elos : \A s \in DOMAIN pja : c \in DOMAIN pja[s]} |->
           meanOfMeans(combined_elos[seq])]

\* main, lines 244-248: combined_avg of the per-source maps.
combinedAvg(pja) ==
    LET combined_elos == CombinedElos(EmptyMap, pja, SourceOrder(pja), 1)
    IN [seq \in DOMAIN combined_elos |-> meanOfMeans(combined_elos[seq])]

\* main, lines 240-242, as one function of the entries.
perJudgeAvg(ebs, cmap, invalid_c) ==
    [source \in DOMAIN ebs |-> build_canonical_avg(ebs[source], cmap, invalid_c)]

\* for path in paths: the next ranking file.
NextPath ==
    /\ pc = "read"
    /\ path_i < Len(Paths)
    /\ path_i' = path_i + 1
    /\ UNCHANGED <<pc, nrows, sequences, edges, invalid_set, entries_by_source,
                   resolverVars, aggVars, plotVars, callVars, runVars>>

\* A mutation of invalidCanonOf: the raw invalid identifiers, not canonicalized.
invalidCanonRaw(cmap, invalid_s) == invalid_s

\* invalid_canon = {canonical_map.get(seq, seq) for seq in invalid_set}
invalidCanonOf(cmap, invalid_s) == {MapGet(cmap, seq) : seq \in invalid_s}

\* main, line 238
InvalidCanon ==
    /\ pc = "mapped"
    /\ invalid_canon' = invalidCanonOf(canonical_map, invalid_set)
    /\ pc' = "avg"
    /\ UNCHANGED <<readVars, resolverVars, per_judge_avg, combined_avg, plotVars, callVars, runVars>>

\* main, lines 241-242: one iteration, the next source of entries_by_source.
AvgSource ==
    /\ pc = "avg"
    /\ Len(SourceOrder(per_judge_avg)) < Len(SourceOrder(entries_by_source))
    /\ LET source == SourceOrder(entries_by_source)[Len(SourceOrder(per_judge_avg)) + 1]
       IN per_judge_avg' =
             [s \in DOMAIN per_judge_avg \cup {source} |->
                 IF s = source
                 THEN build_canonical_avg(entries_by_source[source], canonical_map,
                                          invalid_canon)
                 ELSE per_judge_avg[s]]
    /\ UNCHANGED <<pc, readVars, resolverVars, invalid_canon, combined_avg, plotVars, callVars, runVars>>

\* main, lines 244-248
Combine ==
    /\ pc = "avg"
    /\ Len(SourceOrder(per_judge_avg)) = Len(SourceOrder(entries_by_source))
    /\ combined_avg' = combinedAvg(per_judge_avg)
    /\ pc' = "combined"
    /\ UNCHANGED <<readVars, resolverVars, invalid_canon, per_judge_avg, plotVars, callVars, runVars>>

---------------------------------------------------------------------------
(* build_plot_data and its calls in main *)

\* len(missing_examples) < 10
MissingCap == 10

\* Lines 174-182: the accumulators of a call.
InitialLocals ==
    [n_results_values |-> <<>>, avg_elos |-> <<>>, baseline_seqs |-> EmptyMap,
     numeric_rows |-> 0, numeric_peptides |-> 0, numeric_with_elo |-> 0,
     missing_examples |-> <<>>, missing_by_canonical |-> EmptyMap, missing_total |-> 0]

Locals ==
    [n_results_values |-> n_results_values, avg_elos |-> avg_elos,
     baseline_seqs |-> baseline_seqs, numeric_rows |-> numeric_rows,
     numeric_peptides |-> numeric_peptides, numeric_with_elo |-> numeric_with_elo,
     missing_examples |-> missing_examples, missing_by_canonical |-> missing_by_canonical,
     missing_total |-> missing_total]

SetLocals(st) ==
    /\ n_results_values = st.n_results_values
    /\ avg_elos = st.avg_elos
    /\ baseline_seqs = st.baseline_seqs
    /\ numeric_rows = st.numeric_rows
    /\ numeric_peptides = st.numeric_peptides
    /\ numeric_with_elo = st.numeric_with_elo
    /\ missing_examples = st.missing_examples
    /\ missing_by_canonical = st.missing_by_canonical
    /\ missing_total = st.missing_total

NextLocals(st) ==
    /\ n_results_values' = st.n_results_values
    /\ avg_elos' = st.avg_elos
    /\ baseline_seqs' = st.baseline_seqs
    /\ numeric_rows' = st.numeric_rows
    /\ numeric_peptides' = st.numeric_peptides
    /\ numeric_with_elo' = st.numeric_with_elo
    /\ missing_examples' = st.missing_examples
    /\ missing_by_canonical' = st.missing_by_canonical
    /\ missing_total' = st.missing_total

\* d[key] = value
MapPut(d, key, value) ==
    [k \in DOMAIN d \cup {key} |-> IF k = key THEN value ELSE d[k]]

\* A mutation of appendExample: the cap is tested with <=.
appendExampleOffByOne(examples, pair) ==
    IF Len(examples) <= MissingCap THEN Append(examples, pair) ELSE examples

\* Lines 199-200
appendExample(examples, pair) ==
    IF Len(examples) < MissingCap THEN Append(examples, pair) ELSE examples

\* A mutation of missing: the histogram is kept while the examples are.
missingHistogramCapped(st, peptide, canonical, track) ==
    LET counted == [st EXCEPT !.missing_total = @ + 1]
    IN IF track /\ Len(st.missing_examples) < MissingCap
       THEN [counted EXCEPT
               !.missing_by_canonical =
                   MapPut(@, canonical, (IF canonical \in DOMAIN @ THEN @[canonical] ELSE 0) + 1),
               !.missing_examples = Append(@, <<peptide, canonical>>)]
       ELSE counted

\* A mutation of missing: the total is kept with the details only.
missingTracked(st, peptide, canonical, track) ==
    IF track
    THEN [st EXCEPT
            !.missing_total = @ + 1,
            !.missing_by_canonical =
                MapPut(@, canonical, (IF canonical \in DOMAIN @ THEN @[canonical] ELSE 0) + 1),
            !.missing_examples = appendExample(@, <<peptide, canonical>>)]
    ELSE st

\* Lines 196-200: a row without a mean.
missing(st, peptide, canonical, track) ==
    LET counted == [st EXCEPT !.missing_total = @ + 1]
    IN IF track
       THEN [counted EXCEPT
               !.missing_by_canonical =
                   MapPut(@, canonical, (IF canonical \in DOMAIN @ THEN @[canonical] ELSE 0) + 1),
               !.missing_examples = appendExample(@, <<peptide, canonical>>)]
       ELSE counted

\* A mutation of matched: every row with a mean sets the baseline.
matchedBaselineAll(st, n_results, canonical, avg_elo) ==
    IF n_results = <<>>
    THEN [st EXCEPT !.baseline_seqs = MapPut(@, canonical, avg_elo)]
    ELSE [st EXCEPT !.baseline_seqs = MapPut(@, canonical, avg_elo),
                    !.n_results_values = Append(@, n_results[1]),
                    !.avg_elos = Append(@, avg_elo),
                    !.numeric_with_elo = @ + 1]

\* A mutation of matched: numeric_with_elo counts the baseline rows too.
matchedCountsBaseline(st, n_results, canonical, avg_elo) ==
    IF n_results = <<>>
    THEN [st EXCEPT !.baseline_seqs = MapPut(@, canonical, avg_elo),
                    !.numeric_with_elo = @ + 1]
    ELSE [st EXCEPT !.n_results_values = Append(@, n_results[1]),
                    !.avg_elos = Append(@, avg_elo),
                    !.numeric_with_elo = @ + 1]

\* A mutation of matched: the mean of a baseline row is appended to avg_elos too.
matchedAppendsBaseline(st, n_results, canonical, avg_elo) ==
    IF n_results = <<>>
    THEN [st EXCEPT !.baseline_seqs = MapPut(@, canonical, avg_elo),
                    !.avg_elos = Append(@, avg_elo)]
    ELSE [st EXCEPT !.n_results_values = Append(@, n_results[1]),
                    !.avg_elos = Append(@, avg_elo),
                    !.numeric_with_elo = @ + 1]

\* Lines 202-207: a row with a mean.
matched(st, n_results, canonical, avg_elo) ==
    IF n_results = <<>>
    THEN [st EXCEPT !.baseline_seqs = MapPut(@, canonical, avg_elo)]
    ELSE [st EXCEPT !.n_results_values = Append(@, n_results[1]),
                    !.avg_elos = Append(@, avg_elo),
                    !.numeric_with_elo = @ + 1]

\* A mutation of plotStep: the peptide is looked up as it is written.
plotStepRaw(st, row, cmap, invalid_c, avg, track) ==
    LET peptide == row[1]
        n_results == row[2]
        canonical == peptide
        rowCounted == IF n_results # <<>> THEN [st EXCEPT !.numeric_rows = @ + 1] ELSE st
        peptideCounted == IF n_results # <<>>
                          THEN [rowCounted EXCEPT !.numeric_peptides = @ + 1]
                          ELSE rowCounted
    IN IF peptide = NoValue THEN st
       ELSE IF canonical \in invalid_c THEN rowCounted
       ELSE IF canonical \notin DOMAIN avg
            THEN missing(peptideCounted, peptide, canonical, track)
            ELSE matched(peptideCounted, n_results, canonical, avg[canonical])

\* A mutation of plotStep: the invalid ids are skipped after numeric_peptides
\* is counted.
plotStepLateSkip(st, row, cmap, invalid_c, avg, track) ==
    LET peptide == row[1]
        n_results == row[2]
        canonical == MapGet(cmap, peptide)
        counted == IF n_results # <<>>
                   THEN [st EXCEPT !.numeric_rows = @ + 1, !.numeric_peptides = @ + 1]
                   ELSE st
    IN IF peptide = NoValue THEN st
       ELSE IF canonical \in invalid_c THEN counted
       ELSE IF canonical \notin DOMAIN avg
            THEN missing(counted, peptide, canonical, track)
            ELSE matched(counted, n_results, canonical, avg[canonical])

\* Lines 184-207: one iteration of "for peptide, n_results in rows".
plotStep(st, row, cmap, invalid_c, avg, track) ==
    LET peptide == row[1]
        n_results == row[2]
        canonical == MapGet(cmap, peptide)
        rowCounted == IF n_results # <<>> THEN [st EXCEPT !.numeric_rows = @ + 1] ELSE st
        peptideCounted == IF n_results # <<>>
                          THEN [rowCounted EXCEPT !.numeric_peptides = @ + 1]
                          ELSE rowCounted
    IN IF peptide = NoValue THEN st
       ELSE IF canonical \in invalid_c THEN rowCounted
       ELSE IF canonical \notin DOMAIN avg
            THEN missing(peptideCounted, peptide, canonical, track)
            ELSE matched(peptideCounted, n_results, canonical, avg[canonical])

\* build_plot_data(rows, canonical_map, invalid_canon, avg_map, track_missing):
\* the accumulators after the rows from k on.
RECURSIVE PlotLoop(_, _, _, _, _, _, _)
PlotLoop(st, rs, k, cmap, invalid_c, avg, track) ==
    IF k > Len(rs) THEN st
    ELSE PlotLoop(plotStep(st, rs[k], cmap, invalid_c, avg, track), rs, k + 1,
                  cmap, invalid_c, avg, track)

build_plot_data(rs, cmap, invalid_c, avg, track) ==
    PlotLoop(InitialLocals, rs, 1, cmap, invalid_c, avg, track)

\* main, lines 262-271: one row of the n_results file; rows without a peptide
\* are left out.
ReadAuxRow(peptide, n_results) ==
    /\ pc = "combined"
    /\ rows' = IF peptide = NoValue THEN rows ELSE Append(rows, <<peptide, n_results>>)
    /\ UNCHANGED <<pc, readVars, resolverVars, aggVars, judge_i, plot_avg, track_missing,
                   row_i, plotLocals, callVars, runVars>>

\* The entry of a call of build_plot_data, lines 174-182.
EnterPlot(avg, track) ==
    /\ pc' = "plot"
    /\ plot_avg' = avg
    /\ track_missing' = track
    /\ row_i' = 0
    /\ NextLocals(InitialLocals)

\* main, lines 273-279: the pass over the combined means.
CallPlotData ==
    /\ pc = "combined"
    /\ judge_i' = 0
    /\ EnterPlot(combined_avg, TRUE)
    /\ UNCHANGED <<readVars, resolverVars, aggVars, rows, callVars, runVars>>

\* One iteration of the loop of line 184.
PlotRow ==
    /\ pc = "plot"
    /\ row_i < Len(rows)
    /\ row_i' = row_i + 1
    /\ NextLocals(plotStep(Locals, rows[row_i + 1], canonical_map, invalid_canon,
                           plot_avg, track_missing))
    /\ UNCHANGED <<pc, readVars, resolverVars, aggVars, rows, judge_i, plot_avg,
                   track_missing, callVars, runVars>>

\* Line 217, and main's lines 281-287 after the combined pass: without a data
\* point main exits.
PlotReturn ==
    /\ pc = "plot"
    /\ row_i = Len(rows)
    /\ pc' = IF judge_i = 0 /\ n_results_values = <<>> THEN "exit" ELSE "plotted"
    /\ UNCHANGED <<readVars, resolverVars, aggVars, plotVars, callVars, runVars>>

\* main, lines 377-379: the sources after the k-th that have a non-empty map.
JudgesAfter(k) ==
    {j \in (k + 1)..Len(Paths) :
        Paths[j] \in DOMAIN per_judge_avg /\ per_judge_avg[Paths[j]] # EmptyMap}

\* main, lines 377-389: the pass over the means of the next source.
CallJudgePlot ==
    /\ pc = "plotted"
    /\ JudgesAfter(judge_i) # {}
    /\ LET j == CHOOSE i \in JudgesAfter(judge_i) : \A l \in JudgesAfter(judge_i) : i <= l
       IN /\ judge_i' = j
          /\ EnterPlot(per_judge_avg[Paths[j]], FALSE)
    /\ UNCHANGED <<readVars, resolverVars, aggVars, rows, callVars, runVars>>

---------------------------------------------------------------------------
(* Two calls of the pipeline in flight.  A frame holds the arguments, the    *)
(* position and the scalar locals of a call; the dicts and lists a call      *)
(* creates (parent, rank and components at lines 23-24 and 54, the           *)
(* accumulators at lines 174-182) are objects of the heap, which the frame   *)
(* holds by address.                                                         *)

\* A mutation of newObject: one object per kind, as a module-level table or
\* a mutable default argument would be.
sharedObject(hp, kind) == <<kind, 1>>

\* The address of a newly created object: one no object has.
newObject(hp, kind) ==
    <<kind, Cardinality({a \in DOMAIN hp : a[1] = kind}) + 1>>

\* The frame of a call that enters build_canonical_map with its tables at t.
EnterFrame(inp, t) ==
    [stage |-> "union", input |-> inp, tables |-> t, acc |-> <<>>, edge_i |-> 0,
     row_i |-> 0, canonical_map |-> EmptyMap, invalid_canon |-> {},
     combined_avg |-> EmptyMap, result |-> InitialLocals]

\* The tables hold every identifier of the call and a component for every root;
\* a lookup outside them raises KeyError.
TablesFit(tb, seqs) ==
    /\ seqs \subseteq DOMAIN tb.parent
    /\ \A seq \in seqs : FindRoot(tb.parent, seq) \in DOMAIN tb.components

\* A call starts: main has read its rankings and auxiliary rows, and
\* build_canonical_map creates parent and rank (lines 23-24).
Invoke(c, inp) ==
    /\ c \notin DOMAIN calls
    /\ LET t == newObject(heap, "tables")
       IN /\ heap' = MapPut(heap, t, [parent |-> InitialTables(inp.sequences).parent,
                                     rank |-> InitialTables(inp.sequences).rank,
                                     components |-> EmptyMap])
          /\ calls' = MapPut(calls, c, EnterFrame(inp, t))
    /\ UNCHANGED <<pc, readVars, resolverVars, aggVars, plotVars, runVars>>

\* One iteration of "for left, right in edges: union(left, right)" of call c.
CallUnionStep(c) ==
    /\ c \in DOMAIN calls
    /\ calls[c].stage = "union"
    /\ calls[c].edge_i < Len(calls[c].input.edges)
    /\ LET f == calls[c]
           tb == heap[f.tables]
           e == f.input.edges[f.edge_i + 1]
       IN IF EdgeRaises(tb.parent, e)
          THEN /\ calls' = [calls EXCEPT ![c].stage = "KeyError"]
               /\ heap' = heap
          ELSE LET uf == union([parent |-> tb.parent, rank |-> tb.rank], e[1], e[2])
               IN /\ heap' = [heap EXCEPT ![f.tables].parent = uf.parent,
                                          ![f.tables].rank = uf.rank]
                  /\ calls' = [calls EXCEPT ![c].edge_i = @ + 1]
    /\ UNCHANGED <<pc, readVars, resolverVars, aggVars, plotVars, runVars>>

\* Lines 54-56 of call c.
CallGroupComponents(c) ==
    /\ c \in DOMAIN calls
    /\ calls[c].stage = "union"
    /\ calls[c].edge_i = Len(calls[c].input.edges)
    /\ LET f == calls[c]
           tb == heap[f.tables]
       IN IF ~(f.input.sequences \subseteq DOMAIN tb.parent)
          THEN /\ calls' = [calls EXCEPT ![c].stage = "KeyError"]
               /\ heap' = heap
          ELSE \E ord \in IterationOrders(f.input.sequences) :
                  LET g == GroupLoop(tb.parent, EmptyMap, ord, 1)
                  IN /\ heap' = [heap EXCEPT ![f.tables].parent = g.parent,
                                             ![f.tables].components = g.components]
                     /\ calls' = [calls EXCEPT ![c].stage = "select"]
    /\ UNCHANGED <<pc, readVars, resolverVars, aggVars, plotVars, runVars>>

\* Lines 58-66 of call c: build_canonical_map returns.
CallSelectCanonical(c) ==
    /\ c \in DOMAIN calls
    /\ calls[c].stage = "select"
    /\ LET f == calls[c]
           tb == heap[f.tables]
       IN calls' =
             IF TablesFit(tb, f.input.sequences)
             THEN [calls EXCEPT
                     ![c].stage = "mapped",
                     ![c].canonical_map =
                         resultMap(tb.parent, tb.components, f.input.edges, f.input.sequences)]
             ELSE [calls EXCEPT ![c].stage = "KeyError"]
    /\ UNCHANGED <<heap, pc, readVars, resolverVars, aggVars, plotVars, runVars>>

\* main, lines 238-248, and the entry of build_plot_data, lines 174-182, of
\* call c: the means, and the accumulators of the pass over the combined means.
CallAggregate(c) ==
    /\ c \in DOMAIN calls
    /\ calls[c].stage = "mapped"
    /\ LET f == calls[c]
           invalid_c == invalidCanonOf(f.canonical_map, f.input.invalid_set)
           a == newObject(heap, "acc")
       IN /\ heap' = MapPut(heap, a, InitialLocals)
          /\ calls' = [calls EXCEPT
                         ![c].stage = "plot",
                         ![c].acc = a,
                         ![c].invalid_canon = invalid_c,
                         ![c].combined_avg =
                             combinedAvg(perJudgeAvg(f.input.entries_by_source,
                                                     f.canonical_map, invalid_c))]
    /\ UNCHANGED <<pc, readVars, resolverVars, aggVars, plotVars, runVars>>

\* One iteration of the loop of line 184 of call c.
CallPlotRow(c) ==
    /\ c \in DOMAIN calls
    /\ calls[c].stage = "plot"
    /\ calls[c].row_i < Len(calls[c].input.rows)
    /\ LET f == calls[c]
       IN /\ heap' = [heap EXCEPT ![f.acc] =
                         plotStep(@, f.input.rows[f.row_i + 1], f.canonical_map,
                                  f.invalid_canon, f.combined_avg, TRUE)]
          /\ calls' = [calls EXCEPT ![c].row_i = @ + 1]
    /\ UNCHANGED <<pc, readVars, resolverVars, aggVars, plotVars, runVars>>

\* Line 217 of call c: build_plot_data returns its accumulators.
CallPlotReturn(c) ==
    /\ c \in DOMAIN calls
    /\ calls[c].stage = "plot"
    /\ calls[c].row_i = Len(calls[c].input.rows)
    /\ calls' = [calls EXCEPT ![c].stage = "done", ![c].result = heap[calls[c].acc]]
    /\ UNCHANGED <<heap, pc, readVars, resolverVars, aggVars, plotVars, runVars>>

---------------------------------------------------------------------------
(* run.py: the staged runner and the run state it persists *)

\* main, line 141: stage_names, the keys of the configuration's "stages" in
\* the order of the file.
Stages == <<"truncation_ablations", "truncation_postcheck", "merge_judging">>

StageNames == {Stages[i] : i \in 1..Len(Stages)}

\* The invocations of the runner for the one run id.
MaxInvocations == 3

\* None is <<>>, any other value v is <<v>>; now() is the number of the
\* invocation that read the clock.
None == <<>>

NoRunJson == [exists |-> FALSE, ended_at |-> None, last_stage_completed |-> None,
              error |-> None]

NoState == [ended_at |-> None, last_stage_completed |-> None, error |-> None]

\* build_initial_state, lines 45-53.
build_initial_state == [ended_at |-> None, last_stage_completed |-> None, error |-> None]

\* read_state, lines 29-30: the dict run.json holds.
read_state(file) == [ended_at |-> file.ended_at,
                     last_stage_completed |-> file.last_stage_completed,
                     error |-> file.error]

\* write_state, lines 33-35: run.json after the dict is written to it.
write_state(st) == [exists |-> TRUE, ended_at |-> st.ended_at,
                    last_stage_completed |-> st.last_stage_completed,
                    error |-> st.error]

\* stage_enabled, lines 84-85.
stage_enabled(cfg, stage_name) == cfg[stage_name]

\* list.index: the position of a stage in a list of stages.
IndexOf(stage_names, stage_name) ==
    CHOOSE i \in 1..Len(stage_names) :
        /\ stage_names[i] = stage_name
        /\ \A j \in 1..(i - 1) : stage_names[j] # stage_name

\* A resume that starts again at the stage recorded as completed.
nextStagesFromLast(st, stage_names) ==
    LET last == st.last_stage_completed
    IN  IF last # None /\ \E i \in 1..Len(stage_names) : stage_names[i] = last[1]
        THEN SubSeq(stage_names, IndexOf(stage_names, last[1]), Len(stage_names))
        ELSE stage_names

\* next_stages_to_run, lines 88-92.
next_stages_to_run(st, stage_names) ==
    LET last == st.last_stage_completed
    IN  IF last # None /\ \E i \in 1..Len(stage_names) : stage_names[i] = last[1]
        THEN SubSeq(stage_names, IndexOf(stage_names, last[1]) + 1, Len(stage_names))
        ELSE stage_names

\* The process of an invocation ends: its locals are gone.
ProcessEnds ==
    /\ run_pc' = "idle"
    /\ state' = NoState
    /\ stages_to_run' = <<>>
    /\ stage_k' = 0

\* main, lines 138-157, with load_or_create_run (lines 62-81): an invocation
\* for the run id with a configuration file whose stages are enabled as
\* cli_config says. An existing run.json is resumed with the run directory's
\* own config.yaml; else the configuration is copied and the initial state
\* written. With no stage left the run is ended (lines 144-150), else
\* ended_at and error are cleared and saved before the loop.
StartRun(cli_config) ==
    /\ run_pc = "idle"
    /\ invocations < MaxInvocations
    /\ invocations' = invocations + 1
    /\ raised' = None
    /\ LET run_config == IF run_json.exists THEN config ELSE cli_config
           loaded == IF run_json.exists THEN read_state(run_json) ELSE build_initial_state
           todo == next_stages_to_run(loaded, Stages)
       IN  /\ config' = run_config
           /\ IF todo = <<>>
              THEN /\ run_json' = write_state(
                          [loaded EXCEPT !.error = None,
                                         !.ended_at = IF @ = None
                                                      THEN <<invocations + 1>> ELSE @])
                   /\ ProcessEnds
              ELSE /\ state' = [loaded EXCEPT !.ended_at = None, !.error = None]
                   /\ run_json' = write_state(state')
                   /\ stages_to_run' = todo
                   /\ stage_k' = 0
                   /\ run_pc' = "stages"
    /\ UNCHANGED <<pc, readVars, resolverVars, aggVars, plotVars, callVars>>

\* The stage the loop of line 159 takes next.
stage_name == stages_to_run[stage_k + 1]

InLoop ==
    /\ run_pc = "stages"
    /\ stage_k < Len(stages_to_run)

\* run_stage, lines 104-109: a disabled stage is recorded as completed.
SkipStage ==
    /\ InLoop
    /\ ~stage_enabled(config, stage_name)
    /\ state' = [state EXCEPT !.last_stage_completed = <<stage_name>>, !.error = None]
    /\ run_json' = write_state(state')
    /\ stage_k' = stage_k + 1
    /\ UNCHANGED <<pc, readVars, resolverVars, aggVars, plotVars, callVars,
                   run_pc, config, stages_to_run, raised, invocations>>

\* run_stage, lines 111-123: the stage's function returns.
StageCompletes ==
    /\ InLoop
    /\ stage_enabled(config, stage_name)
    /\ state' = [state EXCEPT !.last_stage_completed = <<stage_name>>, !.error = None]
    /\ run_json' = write_state(state')
    /\ stage_k' = stage_k + 1
    /\ UNCHANGED <<pc, readVars, resolverVars, aggVars, plotVars, callVars,
                   run_pc, config, stages_to_run, raised, invocations>>

\* run_stage, lines 124-129: the stage raises an Exception; the handler
\* saves the error and ends the invocation with SystemExit(1).
StageRaisesException ==
    /\ InLoop
    /\ stage_enabled(config, stage_name)
    /\ raised' = <<stage_name>>
    /\ run_json' = write_state([state EXCEPT !.ended_at = None,
                                             !.error = <<stage_name>>])
    /\ ProcessEnds
    /\ UNCHANGED <<pc, readVars, resolverVars, aggVars, plotVars, callVars,
                   config, invocations>>

\* run_stage, line 119 under the handler of line 124: the stage raises
\* SystemExit, as the stages of pipeline/ do on their errors (for one,
\* merge_judging.py, line 282). SystemExit is no Exception: the handler is
\* passed over, nothing is saved and the invocation ends.
StageRaisesSystemExit ==
    /\ InLoop
    /\ stage_enabled(config, stage_name)
    /\ raised' = <<stage_name>>
    /\ ProcessEnds
    /\ UNCHANGED <<pc, readVars, resolverVars, aggVars, plotVars, callVars,
                   run_json, config, invocations>>

\* main, lines 162-165: every stage of stages_to_run is done.
FinishRun ==
    /\ run_pc = "stages"
    /\ stage_k = Len(stages_to_run)
    /\ run_json' = write_state([state EXCEPT !.ended_at = <<invocations>>,
                                             !.error = None])
    /\ ProcessEnds
    /\ UNCHANGED <<pc, readVars, resolverVars, aggVars, plotVars, callVars,
                   config, raised, invocations>>

---------------------------------------------------------------------------
(* The resolver: rows that carry identifiers and merge votes only *)

Init ==
    /\ pc = "read"
    /\ path_i = 1
    /\ nrows = 0
    /\ sequences = {}
    /\ edges = <<>>
    /\ invalid_set = {}
    /\ entries_by_source = EmptyMap
    /\ parent = EmptyMap
    /\ rank = EmptyMap
    /\ edge_i = 0
    /\ components = EmptyMap
    /\ canonical_map = EmptyMap
    /\ invalid_canon = {}
    /\ per_judge_avg = EmptyMap
    /\ combined_avg = EmptyMap
    /\ rows = <<>>
    /\ judge_i = 0
    /\ plot_avg = EmptyMap
    /\ track_missing = FALSE
    /\ row_i = 0
    /\ SetLocals(InitialLocals)
    /\ calls = EmptyMap
    /\ heap = EmptyMap
    /\ run_pc = "idle"
    /\ run_json = NoRunJson
    /\ config = [s \in StageNames |-> TRUE]
    /\ state = NoState
    /\ stages_to_run = <<>>
    /\ stage_k = 0
    /\ raised = None
    /\ invocations = 0

\* A row of the one ranking file: an identifier or an empty cell, and a merge
\* vote for any identifier (itself included) or none; no score, not invalid.
ReadVoteRow ==
    /\ nrows < MaxRows
    /\ \E seq \in Ids \cup {NoValue}, removed_for \in Ids \cup {NoValue} :
          ReadRow(Paths[1], seq, removed_for, FALSE, <<>>)

Next ==
    \/ ReadVoteRow
    \/ EndRead
    \/ UnionStep
    \/ GroupComponents
    \/ SelectCanonical

Spec == Init /\ [][Next]_vars

---------------------------------------------------------------------------
(* The aggregator: scored rows of two sources over two identifiers *)

MaxScoredRows == 3

AggIds == {"A", "B"}
Elos == {1000, 1100}

\* A row of the current file: its identifier, a merge vote for the other
\* identifier or none, the invalid flag, and a score or none.
ReadScoredRow ==
    /\ nrows < MaxScoredRows
    /\ \E seq \in AggIds, removed_for \in AggIds \cup {NoValue},
          invalid \in BOOLEAN, elo \in {<<>>} \cup {<<v>> : v \in Elos} :
          /\ removed_for # seq
          /\ ReadRow(Paths[path_i], seq, removed_for, invalid, elo)

AggNext ==
    \/ ReadScoredRow
    \/ NextPath
    \/ EndRead
    \/ UnionStep
    \/ GroupComponents
    \/ SelectCanonical
    \/ InvalidCanon
    \/ AvgSource
    \/ Combine

AggSpec == Init /\ [][AggNext]_vars

---------------------------------------------------------------------------
(* The joiner: a ranking file of fixed rows, cut at any row, and any        *)
(* auxiliary rows                                                          *)

MaxAuxRows == 3
MaxCapRows == 11

\* The rows of the ranking files, those of the first source first: B is
\* superseded by A, D by C, and C is flagged invalid.
RankingRows ==
    << [source |-> "s1", seq |-> "B", removed_for |-> "A", invalid |-> FALSE, elo |-> <<1000>>],
       [source |-> "s1", seq |-> "A", removed_for |-> NoValue, invalid |-> FALSE, elo |-> <<1000>>],
       [source |-> "s1", seq |-> "D", removed_for |-> "C", invalid |-> FALSE, elo |-> <<>>],
       [source |-> "s1", seq |-> "C", removed_for |-> NoValue, invalid |-> TRUE, elo |-> <<1100>>],
       [source |-> "s2", seq |-> "A", removed_for |-> NoValue, invalid |-> FALSE, elo |-> <<1100>>],
       [source |-> "s2", seq |-> "C", removed_for |-> NoValue, invalid |-> FALSE, elo |-> <<1000>>] >>

\* The next row of the ranking files.
ReadFileRow ==
    /\ nrows < Len(RankingRows)
    /\ LET r == RankingRows[nrows + 1]
       IN ReadRow(r.source, r.seq, r.removed_for, r.invalid, r.elo)

\* The next ranking file is opened when the rows of this one are read.
NextFile ==
    /\ IF nrows = Len(RankingRows) THEN TRUE
       ELSE RankingRows[nrows + 1].source # Paths[path_i]
    /\ NextPath

\* The peptides of the auxiliary rows; E is in no ranking file.
AuxPeptides == {"A", "B", "D", "E"}
Dims == {1, 2}

ReadAnyAuxRow ==
    /\ Len(rows) < MaxAuxRows
    /\ \E peptide \in AuxPeptides \cup {NoValue}, n_results \in {<<>>} \cup {<<n>> : n \in Dims} :
          ReadAuxRow(peptide, n_results)

JoinNext ==
    \/ ReadFileRow
    \/ NextFile
    \/ EndRead
    \/ UnionStep
    \/ GroupComponents
    \/ SelectCanonical
    \/ InvalidCanon
    \/ AvgSource
    \/ Combine
    \/ ReadAnyAuxRow
    \/ CallPlotData
    \/ PlotRow
    \/ PlotReturn
    \/ CallJudgePlot

JoinSpec == Init /\ [][JoinNext]_vars

\* Auxiliary rows that never find a mean: E has no ranking row, and D
\* resolves to itself or to C, which has no mean.
ReadUnmatchedAuxRow ==
    /\ Len(rows) < MaxCapRows
    /\ \E row \in {<<"E", <<>>>>, <<"D", <<1>>>>} : ReadAuxRow(row[1], row[2])

CapNext ==
    \/ ReadFileRow
    \/ NextFile
    \/ EndRead
    \/ UnionStep
    \/ GroupComponents
    \/ SelectCanonical
    \/ InvalidCanon
    \/ AvgSource
    \/ Combine
    \/ ReadUnmatchedAuxRow
    \/ CallPlotData
    \/ PlotRow
    \/ PlotReturn

CapSpec == Init /\ [][CapNext]_vars

---------------------------------------------------------------------------
(* Two calls on two inputs *)

Calls == {1, 2}

ScoredEntry(source, seq, elo) ==
    [seq |-> seq, elo |-> elo, invalid |-> FALSE, removed_for |-> NoValue, source |-> source]

\* What read_rankings and main's lines 262-271 give for two data sets: in the
\* first B is superseded by A, in the second A and C by B.
CallInputs ==
    { [sequences |-> {"A", "B"},
       edges |-> <<<<"B", "A">>>>,
       invalid_set |-> {},
       entries_by_source |-> [s \in {"s1"} |-> <<ScoredEntry("s1", "A", 1000)>>],
       rows |-> << <<"B", <<1>>>>, <<"E", <<>>>> >>],
      [sequences |-> {"A", "B", "C"},
       edges |-> << <<"A", "B">>, <<"C", "B">> >>,
       invalid_set |-> {},
       entries_by_source |-> [s \in {"s1", "s2"} |->
                                 IF s = "s1" THEN <<ScoredEntry("s1", "B", 1100)>>
                                 ELSE <<ScoredEntry("s2", "B", 1000)>>],
       rows |-> << <<"A", <<>>>>, <<"C", <<2>>>> >>] }

CallNext ==
    \E c \in Calls :
        \/ \E inp \in CallInputs : Invoke(c, inp)
        \/ CallUnionStep(c)
        \/ CallGroupComponents(c)
        \/ CallSelectCanonical(c)
        \/ CallAggregate(c)
        \/ CallPlotRow(c)
        \/ CallPlotReturn(c)

CallSpec == Init /\ [][CallNext]_vars

\* The runner: up to MaxInvocations invocations for one run id, one after the
\* other, the first with any choice of the stages' enabled flags; a stage's
\* function returns, raises an Exception or raises SystemExit.
Configs == [StageNames -> BOOLEAN]

RunNext ==
    \/ \E cli_config \in Configs : StartRun(cli_config)
    \/ SkipStage
    \/ StageCompletes
    \/ StageRaisesException
    \/ StageRaisesSystemExit
    \/ FinishRun

RunSpec == Init /\ [][RunNext]_vars

---------------------------------------------------------------------------
(* Equivalence groups, stated on the edges alone *)

\* The identifiers linked to those of S by a chain of edges, either way round.
RECURSIVE Closure(_, _)
Closure(S, es) ==
    LET N == S \cup {es[k][2] : k \in {j \in 1..Len(es) : es[j][1] \in S}}
               \cup {es[k][1] : k \in {j \in 1..Len(es) : es[j][2] \in S}}
    IN IF N = S THEN S ELSE Closure(N, es)

Group(x) == Closure({x}, edges)

\* The identifiers that are the child (first component) of some edge.
Children(es) == {c \in Ids : \E k \in 1..Len(es) : es[k][1] = c}

LexMin(S) == CHOOSE c \in S : \A d \in S : LexLeq(c, d)

Endpoints(es) == {es[k][1] : k \in 1..Len(es)} \cup {es[k][2] : k \in 1..Len(es)}

\* One of the orders a set can be visited in.
AnOrder(S) == SortedSeq(S)

Permuted(es, p) == [k \in 1..Len(es) |-> es[p[k]]]

Roots(par) == {x \in DOMAIN par : par[x] = x}

Returned == pc = "mapped" /\ sequences # {}

\* C1: identifiers connected by edges, directly or through others, have the
\* same canonical id in the mapping build_canonical_map returns.
GroupConsistency ==
    Returned =>
        \A a, b \in sequences : b \in Group(a) => canonical_map[a] = canonical_map[b]

\* Three identifiers chained by two edges share one canonical id.
GroupConsistencyWitness ==
    /\ Returned
    /\ \E a, b \in sequences :
          /\ a # b
          /\ b \in Group(a)
          /\ \A k \in 1..Len(edges) : {edges[k][1], edges[k][2]} # {a, b}
          /\ canonical_map[a] = canonical_map[b]

\* C2: every member of a group maps to the lexicographically smallest member
\* that is the child of no edge, or, when every member is a child, to the
\* smallest member of the group.
CanonicalSelectionPolicy ==
    Returned =>
        \A x \in sequences :
            LET nonchild == Group(x) \ Children(edges)
            IN canonical_map[x] = IF nonchild # {} THEN LexMin(nonchild)
                                  ELSE LexMin(Group(x))

\* A cycle whose members are all children next to a group with a non-child
\* member that is not its smallest member.
CanonicalSelectionPolicyWitness ==
    /\ Returned
    /\ \E x, y \in sequences :
          /\ Cardinality(Group(x)) > 1
          /\ Group(x) \subseteq Children(edges)
          /\ canonical_map[x] = LexMin(Group(x))
          /\ Group(y) \ Children(edges) # {}
          /\ canonical_map[y] # LexMin(Group(y))

\* C3: every value of the mapping is a key of the mapping and maps to itself.
FixedPoint ==
    Returned =>
        \A x \in DOMAIN canonical_map :
            /\ canonical_map[x] \in DOMAIN canonical_map
            /\ canonical_map[canonical_map[x]] = canonical_map[x]

\* A chain of two edges: the middle identifier is a child and not canonical.
FixedPointWitness ==
    /\ Returned
    /\ \E x \in DOMAIN canonical_map :
          /\ canonical_map[x] # x
          /\ \E k \in 1..Len(edges) :
                /\ edges[k][1] = x
                /\ edges[k][2] # canonical_map[x]
                /\ edges[k][2] # x
          /\ canonical_map[canonical_map[x]] = canonical_map[x]

\* C4: every permutation of the edge list gives the same mapping.
EdgeOrderIndependence ==
    Returned =>
        \A p \in Permutations(1..Len(edges)) :
            LET r == build_canonical_map(sequences, Permuted(edges, p), AnOrder(sequences))
            IN ~r.raised /\ r.mapping = canonical_map

\* A permutation of the edges that leaves the union-find with other roots.
EdgeOrderIndependenceWitness ==
    /\ Returned
    /\ \E p \in Permutations(1..Len(edges)) :
          /\ Roots(UnionLoop(InitialTables(sequences), Permuted(edges, p), 1).parent)
                # Roots(UnionLoop(InitialTables(sequences), edges, 1).parent)
          /\ build_canonical_map(sequences, Permuted(edges, p),
                                 AnOrder(sequences)).mapping = canonical_map

SelfLoopNoOp ==
    Returned =>
        \A x \in sequences :
            LET r == build_canonical_map(sequences, Append(edges, <<x, x>>),
                                         AnOrder(sequences))
            IN ~r.raised /\ r.mapping = canonical_map

\* C6, amended: a further edge (x, x), x in the identifier set, does not raise
\* and leaves the groups as they are; it leaves the mapping as it is when x is
\* already the child of an edge or is not the canonical id of its group, and it
\* changes the mapping of no identifier outside x's group.
SelfLoopKeepsGroups ==
    Returned =>
        \A x \in sequences :
            LET r == build_canonical_map(sequences, Append(edges, <<x, x>>),
                                         AnOrder(sequences))
            IN /\ ~r.raised
               /\ DOMAIN r.mapping = DOMAIN canonical_map
               /\ \A a, b \in sequences :
                     (r.mapping[a] = r.mapping[b]) <=> (canonical_map[a] = canonical_map[b])
               /\ \A a \in sequences \ Group(x) : r.mapping[a] = canonical_map[a]
               /\ (x \in Children(edges) \/ canonical_map[x] # x)
                     => r.mapping = canonical_map

\* The last edge is a self-loop on the identifier that was canonical and no
\* child before it: the group stays together under another canonical id.
SelfLoopKeepsGroupsWitness ==
    /\ Returned
    /\ Len(edges) >= 2
    /\ LET x == edges[Len(edges)][1]
           before == build_canonical_map(sequences, SubSeq(edges, 1, Len(edges) - 1),
                                         AnOrder(sequences)).mapping
       IN /\ edges[Len(edges)][2] = x
          /\ before[x] = x
          /\ canonical_map[x] # x
          /\ \A a, b \in sequences :
                (before[a] = before[b]) <=> (canonical_map[a] = canonical_map[b])

\* C7: a further copy of an edge of the list does not raise and leaves the
\* returned mapping as it is.
DuplicateEdgeNoOp ==
    Returned =>
        \A k \in 1..Len(edges) :
            LET r == build_canonical_map(sequences, Append(edges, edges[k]),
                                         AnOrder(sequences))
            IN ~r.raised /\ r.mapping = canonical_map

\* The list already holds an edge twice, among others.
DuplicateEdgeNoOpWitness ==
    /\ Returned
    /\ Len(edges) = 3
    /\ edges[3] = edges[1]
    /\ edges[2] # edges[1]
    /\ edges[1][1] # edges[1][2]
    /\ build_canonical_map(sequences, SubSeq(edges, 1, 2), AnOrder(sequences)).mapping
          = canonical_map

\* C8: the canonical id of x is connected to x (or is x), and identifiers with
\* the same canonical id are connected.
CanonicalMembership ==
    Returned =>
        /\ \A x \in sequences : canonical_map[x] \in Group(x)
        /\ \A x, y \in sequences :
              canonical_map[x] = canonical_map[y] => y \in Group(x)

\* Two groups of two, each with its own canonical id.
CanonicalMembershipWitness ==
    /\ Returned
    /\ \E x, y \in sequences :
          /\ Cardinality(Group(x)) = 2
          /\ Cardinality(Group(y)) = 2
          /\ y \notin Group(x)
          /\ canonical_map[x] # canonical_map[y]
          /\ canonical_map[x] # x
          /\ canonical_map[y] # y

\* C9: whatever order the identifier set is visited in, the resolver returns
\* the same mapping for the same identifiers and edges.
Determinism ==
    Returned =>
        \A ord \in IterationOrders(sequences) :
            LET r == build_canonical_map(sequences, edges, ord)
            IN ~r.raised /\ r.mapping = canonical_map

\* An order that visits a component's candidates out of sorted order, so that
\* the first candidate met is not the canonical one, gives the returned mapping.
DeterminismWitness ==
    /\ Returned
    /\ \E ord \in IterationOrders(sequences) :
          LET g == GroupLoop(UnionLoop(InitialTables(sequences), edges, 1).parent,
                             EmptyMap, ord, 1)
          IN /\ \E r \in DOMAIN g.components :
                   /\ Len(candidates(g.components[r], edges)) >= 2
                   /\ candidates(g.components[r], edges)[1]
                         # sortedFirst(candidates(g.components[r], edges))
             /\ build_canonical_map(sequences, edges, ord).mapping = canonical_map

Aggregated == pc = "combined"

\* The entries of every source without the merge votes.
WithoutVotes(ebs) ==
    [source \in DOMAIN ebs |->
        SelectSeq(ebs[source], LAMBDA entry : entry.removed_for = NoValue)]

\* C10: an entry with removed_for set contributes to no mean: the per-source
\* and the combined means are those of the entries without removed_for, and
\* with A@1000 next to B@1100 superseded by A (and nothing invalid) the mean
\* of A is exactly 1000.
MergeVoteExclusion ==
    Aggregated =>
        /\ per_judge_avg =
              perJudgeAvg(WithoutVotes(entries_by_source), canonical_map, invalid_canon)
        /\ combined_avg =
              combinedAvg(perJudgeAvg(WithoutVotes(entries_by_source), canonical_map,
                                      invalid_canon))
        /\ \A source \in DOMAIN entries_by_source :
              \A c \in DOMAIN per_judge_avg[source] :
                 \E k \in 1..Len(entries_by_source[source]) :
                    /\ entries_by_source[source][k].removed_for = NoValue
                    /\ MapGet(canonical_map, entries_by_source[source][k].seq) = c
        /\ (/\ DOMAIN entries_by_source = {"s1"}
            /\ Range(entries_by_source["s1"]) =
                  {[seq |-> "A", elo |-> 1000, invalid |-> FALSE,
                    removed_for |-> NoValue, source |-> "s1"],
                   [seq |-> "B", elo |-> 1100, invalid |-> FALSE,
                    removed_for |-> "A", source |-> "s1"]}
            /\ Len(entries_by_source["s1"]) = 2
            /\ edges = <<<<"B", "A">>>>
            /\ invalid_set = {})
           => /\ per_judge_avg["s1"] = [c \in {"A"} |-> <<1000, 1>>]
              /\ combined_avg = [c \in {"A"} |-> <<1000, 1>>]

\* A@1000 and B@1100, B superseded by A: the aggregate of A is 1000.
MergeVoteExclusionWitness ==
    /\ Aggregated
    /\ DOMAIN entries_by_source = {"s1"}
    /\ entries_by_source["s1"] =
          <<[seq |-> "A", elo |-> 1000, invalid |-> FALSE,
             removed_for |-> NoValue, source |-> "s1"],
            [seq |-> "B", elo |-> 1100, invalid |-> FALSE,
             removed_for |-> "A", source |-> "s1"]>>
    /\ canonical_map["B"] = "A"
    /\ combined_avg["A"] = <<1000, 1>>

---------------------------------------------------------------------------
(* The aggregates, stated on the entries *)

\* The invalid canonical ids: those of the groups with a member flagged invalid.
InvalidCanonical == {c \in Ids : \E x \in invalid_set : c = MapGet(canonical_map, x)}

\* The entries of a source that are scored observations of c: not flagged
\* invalid, no removed_for, resolving to c, c not invalid.
Surviving(source, c) ==
    {k \in 1..Len(entries_by_source[source]) :
        LET entry == entries_by_source[source][k]
        IN /\ ~entry.invalid
           /\ entry.removed_for = NoValue
           /\ MapGet(canonical_map, entry.seq) = c
           /\ c \notin InvalidCanonical}

\* The sources whose aggregate map has c.
SourcesWith(c) == {s \in DOMAIN per_judge_avg : c \in DOMAIN per_judge_avg[s]}

RECURSIVE DenProduct(_, _)
DenProduct(S, c) ==
    IF S = {} THEN 1
    ELSE LET s == CHOOSE t \in S : TRUE
         IN per_judge_avg[s][c][2] * DenProduct(S \ {s}, c)

\* The sum of the means of c over the sources S, as a numerator over D.
RECURSIVE NumSum(_, _, _)
NumSum(S, c, D) ==
    IF S = {} THEN 0
    ELSE LET s == CHOOSE t \in S : TRUE
         IN per_judge_avg[s][c][1] * (D \div per_judge_avg[s][c][2])
               + NumSum(S \ {s}, c, D)

RECURSIVE ScoreSum(_, _)
ScoreSum(source, K) ==
    IF K = {} THEN 0
    ELSE LET k == CHOOSE j \in K : TRUE
         IN entries_by_source[source][k].elo + ScoreSum(source, K \ {k})

\* C11: when a member of a group is in the invalid set, the group's canonical
\* id is a key of no per-source map and not of the combined map.
InvalidPropagation ==
    Aggregated =>
        \A x \in invalid_set :
            \A y \in Group(x) \cap sequences :
                /\ \A s \in DOMAIN per_judge_avg :
                      canonical_map[y] \notin DOMAIN per_judge_avg[s]
                /\ canonical_map[y] \notin DOMAIN combined_avg

\* B is invalid and superseded by A; A has a valid scored entry of its own and
\* is in no map.
InvalidPropagationWitness ==
    /\ Aggregated
    /\ \E x \in invalid_set :
          /\ canonical_map[x] # x
          /\ canonical_map[x] \notin invalid_set
          /\ \E s \in DOMAIN entries_by_source :
                \E k \in 1..Len(entries_by_source[s]) :
                    /\ entries_by_source[s][k].seq = canonical_map[x]
                    /\ ~entries_by_source[s][k].invalid
                    /\ entries_by_source[s][k].removed_for = NoValue
          /\ canonical_map[x] \notin DOMAIN combined_avg

\* C12: combined[c] is the arithmetic mean of the per-source means of c over
\* the sources whose map has c, whatever the number of entries behind each.
EqualWeightPerSource ==
    Aggregated =>
        \A c \in DOMAIN combined_avg :
            LET S == SourcesWith(c)
                D == DenProduct(S, c)
            IN /\ S # {}
               /\ combined_avg[c][1] * D * Cardinality(S)
                     = NumSum(S, c, D) * combined_avg[c][2]
               /\ combined_avg[c][2] > 0

\* Two sources with different numbers of entries for c: the combined mean is
\* the mean of the two means and differs from the mean of the pooled scores.
EqualWeightPerSourceWitness ==
    /\ Aggregated
    /\ \E c \in DOMAIN combined_avg :
          /\ SourcesWith(c) = {"s1", "s2"}
          /\ Cardinality(Surviving("s1", c)) # Cardinality(Surviving("s2", c))
          /\ per_judge_avg["s1"][c] # per_judge_avg["s2"][c]
          /\ combined_avg[c][1]
                * (Cardinality(Surviving("s1", c)) + Cardinality(Surviving("s2", c)))
                # (ScoreSum("s1", Surviving("s1", c)) + ScoreSum("s2", Surviving("s2", c)))
                  * combined_avg[c][2]

\* C13: c is a key of a source's map exactly when an entry of that source is
\* not flagged invalid, has no removed_for and resolves to c, c not invalid
\* (entries are the rows that carry a score); a source has a map exactly when
\* it has entries.
AggregatePresence ==
    Aggregated =>
        /\ DOMAIN per_judge_avg = DOMAIN entries_by_source
        /\ \A s \in DOMAIN per_judge_avg :
              \A c \in Ids : c \in DOMAIN per_judge_avg[s] <=> Surviving(s, c) # {}

\* A source with one id in its map and an entry whose own identifier is out of
\* it; and an identifier whose rows carried no score at all.
AggregatePresenceWitness ==
    /\ Aggregated
    /\ \E s \in DOMAIN per_judge_avg :
          /\ \E c \in DOMAIN per_judge_avg[s] : Surviving(s, c) # {}
          /\ \E k \in 1..Len(entries_by_source[s]) :
                entries_by_source[s][k].seq \notin DOMAIN per_judge_avg[s]
    /\ \E x \in sequences :
          \A s \in DOMAIN entries_by_source :
              \A k \in 1..Len(entries_by_source[s]) : entries_by_source[s][k].seq # x

\* C20: the keys of the combined map are the keys of the per-source maps taken
\* together.
CombinedKeys ==
    Aggregated =>
        DOMAIN combined_avg = UNION {DOMAIN per_judge_avg[s] : s \in DOMAIN per_judge_avg}

\* One id is in both sources' maps, another in one only; both are combined,
\* and a third identifier is in no map.
CombinedKeysWitness ==
    /\ Aggregated
    /\ DOMAIN per_judge_avg = {"s1", "s2"}
    /\ \E c \in DOMAIN combined_avg :
          c \in DOMAIN per_judge_avg["s1"] /\ c \notin DOMAIN per_judge_avg["s2"]
    /\ \E x \in sequences : x \notin DOMAIN combined_avg

---------------------------------------------------------------------------
(* Edge direction *)

\* The edges with those at the positions R turned around.
Reversed(es, R) ==
    [i \in 1..Len(es) |-> IF i \in R THEN <<es[i][2], es[i][1]>> ELSE es[i]]

SameGrouping(m1, m2) ==
    \A a, b \in sequences : (m1[a] = m1[b]) <=> (m2[a] = m2[b])

\* C19: turning around any subset of the edges leaves the grouping unchanged:
\* two identifiers share a canonical id before exactly when they do after.
EdgeDirectionIndependence ==
    Returned =>
        \A R \in SUBSET (1..Len(edges)) :
            LET r == build_canonical_map(sequences, Reversed(edges, R), AnOrder(sequences))
            IN /\ ~r.raised
               /\ SameGrouping(r.mapping, canonical_map)

\* A group of three built by two edges, and a reversal that changes the
\* canonical id of the group without changing the group.
EdgeDirectionIndependenceWitness ==
    /\ Returned
    /\ Len(edges) >= 2
    /\ \E x \in sequences : Cardinality(Group(x) \cap sequences) >= 3
    /\ \E R \in SUBSET (1..Len(edges)) :
          LET r == build_canonical_map(sequences, Reversed(edges, R), AnOrder(sequences))
          IN /\ ~r.raised
             /\ r.mapping # canonical_map
             /\ SameGrouping(r.mapping, canonical_map)

---------------------------------------------------------------------------
(* The joiner, stated on the auxiliary rows taken so far *)

\* A call of build_plot_data is running or has returned.
InJoin == pc \in {"plot", "plotted", "exit"}

RowCanonical(k) == MapGet(canonical_map, rows[k][1])
RowInvalid(k) == RowCanonical(k) \in InvalidCanonical
RowMatched(k) == RowCanonical(k) \in DOMAIN plot_avg
HasDim(k) == rows[k][2] # <<>>

\* One pair for every one of the first k rows that has a dimension value, a
\* canonical id that is not invalid, and a mean.
RECURSIVE DataPointsOf(_)
DataPointsOf(k) ==
    IF k = 0 THEN <<>>
    ELSE IF HasDim(k) /\ ~RowInvalid(k) /\ RowMatched(k)
         THEN Append(DataPointsOf(k - 1), <<rows[k][2][1], plot_avg[RowCanonical(k)]>>)
         ELSE DataPointsOf(k - 1)

dataPoints == [k \in 1..Len(n_results_values) |-> <<n_results_values[k], avg_elos[k]>>]

\* The first k rows whose canonical id is not invalid and has no mean.
MissingRows(k) == {j \in 1..k : ~RowInvalid(j) /\ ~RowMatched(j)}

RECURSIVE MissingPairsOf(_)
MissingPairsOf(k) ==
    IF k = 0 THEN <<>>
    ELSE IF k \in MissingRows(k)
         THEN Append(MissingPairsOf(k - 1), <<rows[k][1], RowCanonical(k)>>)
         ELSE MissingPairsOf(k - 1)

Min(a, b) == IF a <= b THEN a ELSE b

\* C14: a row without a dimension value and with a mean sets
\* baseline[canonical] and adds no data point; the data points are one pair
\* for every row with a dimension value, a canonical id that is not invalid,
\* and a mean.
BaselineExclusion ==
    InJoin =>
        /\ Len(n_results_values) = Len(avg_elos)
        /\ dataPoints = DataPointsOf(row_i)
        /\ \A k \in 1..row_i :
              ~HasDim(k) /\ ~RowInvalid(k) /\ RowMatched(k) =>
                  /\ RowCanonical(k) \in DOMAIN baseline_seqs
                  /\ baseline_seqs[RowCanonical(k)] = plot_avg[RowCanonical(k)]

\* A returned call that took a baseline row with a mean, under an alias, and a
\* row with a dimension value and a mean: one data point, one baseline.
BaselineExclusionWitness ==
    /\ pc = "plotted"
    /\ row_i = Len(rows)
    /\ \E k \in 1..row_i : ~HasDim(k) /\ RowMatched(k) /\ RowCanonical(k) # rows[k][1]
    /\ \E k \in 1..row_i : HasDim(k) /\ RowMatched(k)
    /\ Len(n_results_values) = 1
    /\ DOMAIN baseline_seqs = {"A"}

\* C15: every row, baseline or not, whose canonical id is not invalid and has
\* no mean adds exactly one to missing_total, with or without tracking: after
\* any number of rows missing_total is the number of such rows.
UnmatchedCounted ==
    InJoin => missing_total = Cardinality(MissingRows(row_i))

\* A returned pass without tracking that took a baseline row and a row with a
\* dimension value, both without a mean.
UnmatchedCountedWitness ==
    /\ pc = "plotted"
    /\ ~track_missing
    /\ row_i = Len(rows)
    /\ \E j, k \in MissingRows(row_i) : ~HasDim(j) /\ HasDim(k)
    /\ missing_total = 2

\* C16: missing_examples never has more than 10 pairs, and with tracking it is
\* the <<peptide, canonical>> pairs of the first min(10, missing_total) rows
\* without a mean, in the order of the rows.
CappedExamples ==
    InJoin =>
        /\ Len(missing_examples) <= MissingCap
        /\ track_missing =>
              missing_examples =
                  SubSeq(MissingPairsOf(row_i), 1, Min(MissingCap, missing_total))

\* Eleven rows without a mean, ten examples, one of them under an alias.
CappedExamplesWitness ==
    /\ InJoin
    /\ track_missing
    /\ missing_total = MissingCap + 1
    /\ Len(missing_examples) = MissingCap
    /\ \E k \in 1..Len(missing_examples) : missing_examples[k] = <<"D", "C">>
    /\ \E k \in 1..Len(missing_examples) : missing_examples[k] = <<"E", "E">>

\* The loop of build_plot_data takes a row whose canonical id is invalid.
InvalidRowStep ==
    /\ pc = "plot"
    /\ row_i < Len(rows)
    /\ row_i' = row_i + 1
    /\ RowInvalid(row_i + 1)

\* C17, as claimed: a row whose canonical id is invalid changes no data
\* point, no baseline, no counter, no example and no histogram entry.
InvalidRowSkippedEntirely ==
    [][InvalidRowStep => UNCHANGED plotLocals]_vars

\* C17: a row whose canonical id is invalid changes no data point, no
\* baseline, no example, no histogram entry and no counter other than
\* numeric_rows, which it raises by one when it has a dimension value.
InvalidRowSkipped ==
    [][InvalidRowStep =>
          /\ numeric_rows' = numeric_rows + (IF HasDim(row_i + 1) THEN 1 ELSE 0)
          /\ UNCHANGED <<n_results_values, avg_elos, baseline_seqs, numeric_peptides,
                         numeric_with_elo, missing_examples, missing_by_canonical,
                         missing_total>>]_vars

\* The tracked pass has just taken a row with a dimension value whose
\* canonical id is invalid: only numeric_rows has counted it.
InvalidRowSkippedWitness ==
    /\ pc = "plot"
    /\ track_missing
    /\ row_i = 1
    /\ HasDim(1)
    /\ RowInvalid(1)
    /\ RowCanonical(1) # rows[1][1]
    /\ numeric_rows = 1
    /\ numeric_peptides = 0
    /\ missing_total = 0

---------------------------------------------------------------------------
(* Calls in flight together *)

\* What a call on the input inp returns when it runs alone.
Alone(inp) ==
    LET r == build_canonical_map(inp.sequences, inp.edges, AnOrder(inp.sequences))
        invalid_c == invalidCanonOf(r.mapping, inp.invalid_set)
        avg == combinedAvg(perJudgeAvg(inp.entries_by_source, r.mapping, invalid_c))
    IN [canonical_map |-> r.mapping,
        combined_avg |-> avg,
        result |-> build_plot_data(inp.rows, r.mapping, invalid_c, avg, TRUE)]

\* C18: of two calls of the pipeline on their own inputs, interleaved step by
\* step in any order, neither raises and each returns what it returns when
\* run alone: the mapping, the combined means, the data points, the baseline
\* and the diagnostics.
CallIsolation ==
    \A c \in DOMAIN calls :
        LET f == calls[c]
        IN /\ f.stage # "KeyError"
           /\ f.stage \in {"mapped", "plot", "done"} =>
                 f.canonical_map = Alone(f.input).canonical_map
           /\ f.stage \in {"plot", "done"} =>
                 f.combined_avg = Alone(f.input).combined_avg
           /\ f.stage = "done" => f.result = Alone(f.input).result

\* Call 2 was started first and is still between two unions; call 1, started
\* after it on the other input, has run to its return in the meantime, with
\* tables and accumulators of its own.
CallIsolationWitness ==
    /\ DOMAIN calls = Calls
    /\ calls[2].tables = <<"tables", 1>>
    /\ calls[2].stage = "union"
    /\ calls[2].edge_i = 1
    /\ calls[1].tables = <<"tables", 2>>
    /\ calls[1].stage = "done"
    /\ calls[1].input # calls[2].input
    /\ calls[1].result.n_results_values # <<>>
    /\ calls[1].result.missing_total = 1

---------------------------------------------------------------------------
(* The per-source means *)

\* C21: perSource[s][c] is the sum of the scores of the surviving entries of s
\* that resolve to c, divided by their number, the entries of all the raw
\* identifiers of c's group taken together.
PerSourceMean ==
    Aggregated =>
        \A s \in DOMAIN per_judge_avg :
            \A c \in DOMAIN per_judge_avg[s] :
                /\ per_judge_avg[s][c][2] > 0
                /\ per_judge_avg[s][c][1] * Cardinality(Surviving(s, c))
                      = ScoreSum(s, Surviving(s, c)) * per_judge_avg[s][c][2]

\* A source with two surviving entries of different scores for c, one under c
\* itself and one under another identifier of its group.
PerSourceMeanWitness ==
    /\ Aggregated
    /\ \E s \in DOMAIN per_judge_avg :
          \E c \in DOMAIN per_judge_avg[s] :
              \E j, k \in Surviving(s, c) :
                  /\ entries_by_source[s][j].seq = c
                  /\ entries_by_source[s][k].seq # c
                  /\ entries_by_source[s][j].elo # entries_by_source[s][k].elo
                  /\ per_judge_avg[s][c][2] = 1
                  /\ per_judge_avg[s][c][1] * 2
                        = entries_by_source[s][j].elo + entries_by_source[s][k].elo

---------------------------------------------------------------------------
(* The joiner: baseline, histogram, tracking, counters *)

\* Of the first k rows, those without a dimension value whose canonical id is
\* not invalid and has a mean.
BaselineRows(k) == {j \in 1..k : ~HasDim(j) /\ ~RowInvalid(j) /\ RowMatched(j)}

\* C22: the keys of the baseline are exactly the canonical ids of the rows
\* without a dimension value whose canonical id is not invalid and has a mean,
\* and baseline[c] is that mean, however many such rows resolve to c.
BaselineContent ==
    InJoin =>
        /\ DOMAIN baseline_seqs = {RowCanonical(j) : j \in BaselineRows(row_i)}
        /\ \A c \in DOMAIN baseline_seqs : baseline_seqs[c] = plot_avg[c]

\* A returned pass with two baseline rows of one group, one under an alias,
\* and a row with a dimension value and a mean of its own: one key.
BaselineContentWitness ==
    /\ pc = "plotted"
    /\ row_i = Len(rows)
    /\ \E j, k \in BaselineRows(row_i) :
          j # k /\ rows[j][1] # rows[k][1] /\ RowCanonical(j) = RowCanonical(k)
    /\ \E k \in 1..row_i : HasDim(k) /\ RowMatched(k)
    /\ Cardinality(DOMAIN baseline_seqs) = 1

RECURSIVE HistogramSum(_, _)
HistogramSum(h, S) ==
    IF S = {} THEN 0
    ELSE LET c == CHOOSE x \in S : TRUE
         IN h[c] + HistogramSum(h, S \ {c})

\* C23: with tracking, after any number of rows, missing_by_canonical[c] is the
\* number of rows taken whose canonical id is c, not invalid and without a
\* mean, its keys are the ids with such a row, and its counts add up to
\* missing_total: the cap of the examples does not apply to it.
FullHistogram ==
    InJoin /\ track_missing =>
        /\ DOMAIN missing_by_canonical = {RowCanonical(j) : j \in MissingRows(row_i)}
        /\ \A c \in DOMAIN missing_by_canonical :
              missing_by_canonical[c]
                  = Cardinality({j \in MissingRows(row_i) : RowCanonical(j) = c})
        /\ HistogramSum(missing_by_canonical, DOMAIN missing_by_canonical) = missing_total

\* Eleven rows without a mean under two canonical ids: the examples stop at
\* ten, the histogram counts all eleven.
FullHistogramWitness ==
    /\ InJoin
    /\ track_missing
    /\ missing_total = MissingCap + 1
    /\ Len(missing_examples) = MissingCap
    /\ DOMAIN missing_by_canonical = {"C", "E"}
    /\ missing_by_canonical["C"] + missing_by_canonical["E"] = MissingCap + 1
    /\ rows[MissingCap + 1][1] = "D"

\* C24: for the rows, mapping, invalid set and means of a call, the call with
\* the other value of track_missing returns the same data points, baseline,
\* numeric counters and missing_total; without tracking missing_examples and
\* missing_by_canonical are empty.
TrackingGatesDetails ==
    InJoin /\ row_i = Len(rows) =>
        LET other == build_plot_data(rows, canonical_map, invalid_canon, plot_avg,
                                     ~track_missing)
            untracked == IF track_missing THEN other ELSE Locals
        IN /\ other.n_results_values = n_results_values
           /\ other.avg_elos = avg_elos
           /\ other.baseline_seqs = baseline_seqs
           /\ other.numeric_rows = numeric_rows
           /\ other.numeric_peptides = numeric_peptides
           /\ other.numeric_with_elo = numeric_with_elo
           /\ other.missing_total = missing_total
           /\ untracked.missing_examples = <<>>
           /\ untracked.missing_by_canonical = EmptyMap

\* A returned pass without tracking, with a data point, a baseline and a row
\* without a mean, whose tracked twin has an example and a histogram entry.
TrackingGatesDetailsWitness ==
    /\ pc = "plotted"
    /\ ~track_missing
    /\ row_i = Len(rows)
    /\ n_results_values # <<>>
    /\ baseline_seqs # EmptyMap
    /\ missing_total = 1
    /\ missing_examples = <<>>
    /\ LET tracked == build_plot_data(rows, canonical_map, invalid_canon, plot_avg, TRUE)
       IN /\ Len(tracked.missing_examples) = 1
          /\ tracked.missing_by_canonical # EmptyMap

\* The counters a call reports: the keys of diagnostics that are counts.
ReportedCounters == {numeric_rows, numeric_peptides, numeric_with_elo, missing_total}

DimRows(k) == {j \in 1..k : HasDim(j)}

\* C25, as claimed: the diagnostics report the number of rows seen, the number
\* of rows with a dimension value, and the number of rows with a dimension
\* value and a mean, the last being the number of data points.
DiagnosticsReportTotals ==
    InJoin =>
        /\ row_i \in ReportedCounters
        /\ Cardinality(DimRows(row_i)) \in ReportedCounters
        /\ numeric_with_elo = Len(n_results_values)

\* C25: the diagnostics report numeric_rows, the number of rows with a
\* dimension value; numeric_peptides, the number of those whose canonical id is
\* not invalid; and numeric_with_elo, the number of those that also have a
\* mean, which is the number of data points.  No count of all the rows is kept.
DiagnosticsCounters ==
    InJoin =>
        /\ numeric_rows = Cardinality(DimRows(row_i))
        /\ numeric_peptides = Cardinality({j \in DimRows(row_i) : ~RowInvalid(j)})
        /\ numeric_with_elo
              = Cardinality({j \in DimRows(row_i) : ~RowInvalid(j) /\ RowMatched(j)})
        /\ numeric_with_elo = Len(n_results_values)
        /\ numeric_with_elo = Len(avg_elos)

\* A returned pass over three rows with dimension values: one invalid, one
\* without a mean, one with a mean.  The three counters are 3, 2 and 1.
DiagnosticsCountersWitness ==
    /\ pc = "plotted"
    /\ row_i = 3
    /\ numeric_rows = 3
    /\ numeric_peptides = 2
    /\ numeric_with_elo = 1
    /\ missing_total = 1

\* C26: every row taken is in exactly one of four outcomes: skipped as invalid,
\* counted in missing_total, recorded as baseline, or emitted as a data point;
\* numeric_with_elo <= numeric_peptides <= numeric_rows, and numeric_peptides -
\* numeric_with_elo is the number of rows with a dimension value that are
\* counted as missing.
RowConservation ==
    InJoin =>
        /\ row_i = Cardinality({j \in 1..row_i : RowInvalid(j)})
                   + missing_total
                   + Cardinality(BaselineRows(row_i))
                   + Len(n_results_values)
        /\ missing_total = Cardinality(MissingRows(row_i))
        /\ DOMAIN baseline_seqs = {RowCanonical(j) : j \in BaselineRows(row_i)}
        /\ numeric_with_elo <= numeric_peptides
        /\ numeric_peptides <= numeric_rows
        /\ numeric_peptides - numeric_with_elo
              = Cardinality({j \in MissingRows(row_i) : HasDim(j)})

\* A returned pass with a row of three of the outcomes, the invalid row and
\* the row without a mean having dimension values: the counters differ.
RowConservationWitness ==
    /\ pc = "plotted"
    /\ row_i = 3
    /\ \E j \in 1..row_i : RowInvalid(j) /\ HasDim(j)
    /\ \E j \in MissingRows(row_i) : HasDim(j)
    /\ Len(n_results_values) = 1
    /\ numeric_with_elo < numeric_peptides
    /\ numeric_peptides < numeric_rows

\* What build_plot_data does with one row: the outcome and the mean joined.
RowOutcome(row) ==
    LET st == plotStep(InitialLocals, row, canonical_map, invalid_canon, plot_avg, TRUE)
    IN IF st.missing_total = 1
       THEN [class |-> "missing", score |-> <<>>, key |-> st.missing_examples[1][2]]
       ELSE IF st.baseline_seqs # EmptyMap
       THEN [class |-> "matched",
             score |-> st.baseline_seqs[CHOOSE c \in DOMAIN st.baseline_seqs : TRUE],
             key |-> CHOOSE c \in DOMAIN st.baseline_seqs : TRUE]
       ELSE IF st.avg_elos # <<>>
       THEN [class |-> "matched", score |-> st.avg_elos[1], key |-> <<>>]
       ELSE [class |-> "skipped", score |-> <<>>, key |-> <<>>]

\* C27: two auxiliary rows whose peptides are in one group get the same
\* outcome (both a mean, and the same one, both missing, or both skipped as
\* invalid), and a row whose peptide the mapping does not know is looked up
\* under the peptide itself.
JoinThroughMapping ==
    InJoin =>
        /\ \A j, k \in 1..Len(rows) :
              rows[j][1] \in sequences /\ rows[k][1] \in Group(rows[j][1]) =>
                  /\ RowOutcome(rows[j]).class = RowOutcome(rows[k]).class
                  /\ RowOutcome(rows[j]).score = RowOutcome(rows[k]).score
        /\ \A k \in 1..Len(rows) :
              rows[k][1] \notin DOMAIN canonical_map =>
                  \/ RowOutcome(rows[k]).class = "missing"
                        /\ RowOutcome(rows[k]).key = rows[k][1]
                        /\ rows[k][1] \notin DOMAIN plot_avg
                  \/ RowOutcome(rows[k]).class = "matched"
                        /\ RowOutcome(rows[k]).score = plot_avg[rows[k][1]]
                  \/ RowOutcome(rows[k]).class = "skipped"
                        /\ rows[k][1] \in invalid_canon

\* A returned pass that took A and its alias B, both with dimension values,
\* and a peptide the mapping does not know: two data points with one mean, and
\* one missing row under its own name.
JoinThroughMappingWitness ==
    /\ pc = "plotted"
    /\ row_i = 3
    /\ \E j, k \in 1..row_i :
          /\ rows[j][1] = "A" /\ rows[k][1] = "B"
          /\ "B" \in Group("A")
          /\ HasDim(j) /\ HasDim(k)
    /\ Len(avg_elos) = 2
    /\ avg_elos[1] = avg_elos[2]
    /\ missing_examples = << <<"E", "E">> >>

---------------------------------------------------------------------------
(* The union-find tables while build_canonical_map runs *)

\* The tables of build_canonical_map exist: the unions or the grouping are
\* under way.
InResolver == pc \in {"union", "select"}

\* The node n parent steps above x.
RECURSIVE Climb(_, _, _)
Climb(par, x, n) == IF n = 0 THEN x ELSE Climb(par, par[x], n - 1)

\* The node reached from x after as many parent steps as there are nodes.
Top(par, x) == Climb(par, x, Cardinality(DOMAIN par))

\* Every chain of parent pointers ends in a node that points at itself.
Forest(par) ==
    /\ \A x \in DOMAIN par : par[x] \in DOMAIN par
    /\ \A x \in DOMAIN par : par[Top(par, x)] = Top(par, x)

\* The edges the loop of line 51 has taken.
ProcessedEdges == SubSeq(edges, 1, edge_i)

\* C28: while build_canonical_map runs, the parent pointers form a forest whose
\* only cycles are the self-pointers of the roots, so that find ends; a find
\* with its path compression leaves every node's root as it was; and two
\* identifiers have the same root exactly when a chain of processed edges
\* links them.
UnionFindWellFormed ==
    InResolver =>
        /\ DOMAIN parent = sequences
        /\ Forest(parent)
        /\ \A x \in sequences :
              LET f == find(parent, x)
              IN /\ f.root = Top(parent, x)
                 /\ Forest(f.parent)
                 /\ \A y \in sequences : Top(f.parent, y) = Top(parent, y)
        /\ \A a, b \in sequences :
              Top(parent, a) = Top(parent, b) <=> b \in Closure({a}, ProcessedEdges)

\* Three unions have built a tree two levels deep, and a find from its leaf
\* rewrites the table.
UnionFindWellFormedWitness ==
    /\ pc = "union"
    /\ edge_i = 3
    /\ \E x \in sequences :
          /\ parent[x] # x
          /\ parent[parent[x]] # parent[x]
          /\ find(parent, x).parent # parent
          /\ find(parent, x).root = parent[parent[x]]

---------------------------------------------------------------------------
(* The staged runner: resume and failure *)

\* The position in the configuration's order of the stage a state records as
\* completed, 0 for none.
CompletedUpTo(file) ==
    IF file.last_stage_completed = None THEN 0
    ELSE IndexOf(Stages, file.last_stage_completed[1])

\* A step of run_stage on the stage the loop is at: the stage is skipped as
\* disabled, its function returns, or its function raises.
TakesStage ==
    /\ run_pc = "stages"
    /\ \/ stage_k' = stage_k + 1
       \/ raised' # None

\* A step that starts an invocation on a run whose last stage is completed.
StartsOnCompletedRun ==
    /\ invocations' = invocations + 1
    /\ run_json.exists
    /\ CompletedUpTo(run_json) = Len(Stages)

\* C29: over the invocations of the runner for one run id, each of which may
\* fail at some stage, the stage run_stage takes is always the one right after
\* the persisted last_stage_completed in the configuration's order (the first
\* stage when none is recorded), the recorded position never moves back, so a
\* stage recorded as completed or skipped is never taken again, and an
\* invocation that finds the final stage recorded takes no stage and leaves
\* ended_at set.
StagedResume ==
    [][ /\ TakesStage =>
              IndexOf(Stages, stage_name) = CompletedUpTo(run_json) + 1
        /\ CompletedUpTo(run_json') >= CompletedUpTo(run_json)
        /\ StartsOnCompletedRun =>
              /\ run_pc' = "idle"
              /\ run_json'.ended_at # None
              /\ run_json'.last_stage_completed = run_json.last_stage_completed
      ]_vars

\* The second invocation resumed a run whose first invocation ended after its
\* first stage (it failed at the second), took the second stage as its first
\* and has recorded it.
StagedResumeWitness ==
    /\ invocations = 2
    /\ run_pc = "stages"
    /\ stages_to_run = SubSeq(Stages, 2, Len(Stages))
    /\ stage_k = 1
    /\ run_json.last_stage_completed = <<Stages[2]>>

\* C30: in the step in which a stage raises, the persisted state gets that
\* stage as its error, a null ended_at and the last_stage_completed it had
\* before the stage, and the invocation takes no further stage; and no
\* persisted state has both an error and an ended_at.
StageFailureState ==
    /\ [][ (raised = None /\ raised' # None) =>
              /\ run_json'.error = raised'
              /\ run_json'.ended_at = None
              /\ run_json'.last_stage_completed = run_json.last_stage_completed
              /\ run_pc' = "idle"
         ]_vars
    /\ [](run_json.error = None \/ run_json.ended_at = None)

====
